---- MODULE Spec2Model ----
(***************************************************************************)
(* Model of simple_password_generator/main.py: the PasswordGenerator class *)
(* (alphabet construction and generate) and the CLI.run driver.            *)
(*                                                                         *)
(* A character is modelled by its ASCII code point, a str by the sequence  *)
(* of its characters.  The entropy source behind secrets.choice is a tape  *)
(* of nondeterministically chosen indices, one per call of secrets.choice. *)
(***************************************************************************)
EXTENDS Integers, Sequences, FiniteSets, TLC

(* ---------------------------- bounds ----------------------------------- *)
\* largest length of a single generate call on a generator; the lengths
\* tried are -MaxLength..MaxLength, so zero and negative ones are covered
MaxLength == 2
\* largest length in a sequence of generate calls on one generator
MaxSeqLength == 1
\* number of generate calls in such a sequence
MaxCalls == 2
\* largest --length given on the command line (-MaxArgLength..MaxArgLength)
MaxArgLength == 1

(* ------------------------ Python's string module ------------------------ *)
\* the characters with code points a..b, in order
CodeRange(a, b) == [i \in 1..(b - a + 1) |-> a + i - 1]

\* string.ascii_lowercase: 'a'..'z'
ascii_lowercase == CodeRange(97, 122)
\* string.ascii_uppercase: 'A'..'Z'
ascii_uppercase == CodeRange(65, 90)
\* string.digits: '0'..'9'
digits == CodeRange(48, 57)
\* string.punctuation: !"#$%&'()*+,-./  :;<=>?@  [\]^_`  {|}~
punctuation ==
    CodeRange(33, 47) \o CodeRange(58, 64) \o CodeRange(91, 96) \o CodeRange(123, 126)

\* the characters occurring in a str
Chars(s) == {s[i] : i \in 1..Len(s)}

(* --------------------------- PasswordGenerator -------------------------- *)
\* _build_charset with the uppercase pool added whatever the flag says
_build_charset_always_upper(self) ==
    LET c1 == ascii_lowercase \o ascii_uppercase
        c2 == IF self._use_numbers THEN c1 \o digits ELSE c1
        c3 == IF self._use_special THEN c2 \o punctuation ELSE c2
    IN  c3

\* _build_charset starting from an empty list instead of the lowercase pool
_build_charset_no_lower(self) ==
    LET c1 == IF self._use_uppercase THEN ascii_uppercase ELSE <<>>
        c2 == IF self._use_numbers THEN c1 \o digits ELSE c1
        c3 == IF self._use_special THEN c2 \o punctuation ELSE c2
    IN  c3

\* _build_charset with the digits added before the uppercase letters
_build_charset_swapped(self) ==
    LET c0 == ascii_lowercase
        c1 == IF self._use_numbers THEN c0 \o digits ELSE c0
        c2 == IF self._use_uppercase THEN c1 \o ascii_uppercase ELSE c1
        c3 == IF self._use_special THEN c2 \o punctuation ELSE c2
    IN  c3

\* PasswordGenerator._build_charset: lowercase always, then each enabled pool
_build_charset(self) ==
    LET c0 == ascii_lowercase
        c1 == IF self._use_uppercase THEN c0 \o ascii_uppercase ELSE c0
        c2 == IF self._use_numbers THEN c1 \o digits ELSE c1
        c3 == IF self._use_special THEN c2 \o punctuation ELSE c2
    IN  c3

\* PasswordGenerator.__init__: store the three flags, then build the charset
PasswordGenerator(use_uppercase, use_numbers, use_special) ==
    LET self == [_use_uppercase |-> use_uppercase,
                 _use_numbers   |-> use_numbers,
                 _use_special   |-> use_special]
    IN  [_use_uppercase |-> self._use_uppercase,
         _use_numbers   |-> self._use_numbers,
         _use_special   |-> self._use_special,
         _charset       |-> _build_charset(self)]

\* secrets.choice(seq) is seq[randbelow(len(seq))]; r is the value randbelow gave
choice(seq, r) == seq[r + 1]

\* what a call leaves behind: it returned a str, or it raised ValueError;
\* choices counts the calls of secrets.choice it made
Return(value, n) == [kind |-> "return", value |-> value, error |-> "", choices |-> n]
Raise(message)   == [kind |-> "raise", value |-> <<>>, error |-> message, choices |-> 0]
NoOutcome        == [kind |-> "none", value |-> <<>>, error |-> "", choices |-> 0]

EmptyCharsetMessage == "Character set is empty. Enable at least one character type."
InvalidLengthMessage == "Password length must be at least 1."

\* generate drawing one character too few: range(length - 1)
generate_short(self, length, rnd) ==
    IF Len(self._charset) = 0
    THEN Raise(EmptyCharsetMessage)
    ELSE IF length < 1
         THEN Raise(InvalidLengthMessage)
         ELSE Return([i \in 1..(length - 1) |-> choice(self._charset, rnd[i])], length - 1)

\* generate rejecting only negative lengths: if length < 0
generate_lenient(self, length, rnd) ==
    IF Len(self._charset) = 0
    THEN Raise(EmptyCharsetMessage)
    ELSE IF length < 0
         THEN Raise(InvalidLengthMessage)
         ELSE Return([i \in 1..length |-> choice(self._charset, rnd[i])], length)

\* PasswordGenerator.generate, rnd being the values the entropy source gives
generate(self, length, rnd) ==
    IF Len(self._charset) = 0
    THEN Raise(EmptyCharsetMessage)
    ELSE IF length < 1
         THEN Raise(InvalidLengthMessage)
         ELSE Return([i \in 1..length |-> choice(self._charset, rnd[i])], length)

\* the tapes the entropy source can produce during generate(self, length):
\* one value below len(charset) per secrets.choice call, none if generate raises
Tapes(self, length) ==
    IF Len(self._charset) = 0 \/ length < 1
    THEN {<<>>}
    ELSE [1..length -> 0..(Len(self._charset) - 1)]

(* ------------------------------- CLI --------------------------------- *)
\* CLI.parse_args: the dict built from the argparse namespace
parse_args(ns) ==
    [length        |-> ns.length,
     use_uppercase |-> ~ns.no_uppercase,
     use_numbers   |-> ~ns.no_numbers,
     use_special   |-> ~ns.no_special,
     copy          |-> ns.copy]

\* one print call: a literal text followed by an interpolated str
Printed(literal, str) == [literal |-> literal, str |-> str]

\* CLI.display_password: three print calls on stdout
display_password(out, pw) ==
    out \o <<Printed("\nGenerated password:\n", <<>>), Printed("", pw), Printed("", <<>>)>>

\* display_error printing nothing
display_error_silent(err, message) == err

\* CLI.display_error: print(f"Error: {message}", file=sys.stderr)
display_error(err, message) == Append(err, [prefix |-> "Error: ", message |-> message])

\* str(exc) of the PyperclipException raised when no clipboard backend works
PyperclipMessage == "Pyperclip could not find a copy/paste mechanism for your system."

(* ------------------------------- state --------------------------------- *)
VARIABLES
    generator,     \* the PasswordGenerator object: <<>> before construction, <<self>> after
    ctor,          \* history: the arguments __init__ was called with (<<>> before)
    length,        \* the length argument of the current / last generate call
    outcome,       \* what the last generate call did (NoOutcome while none finished)
    gen_pc,        \* direct use of a generator: "idle", "called", "done"
    history,       \* history: the kinds of outcome of the finished direct calls
    namespace,     \* the argparse namespace of the command line (<<>> if none)
    args,          \* the dict parse_args returned (<<>> before)
    pc,            \* position of CLI.run
    password,      \* the local variable password of CLI.run
    stdout,        \* what was printed to stdout, one entry per print call
    stderr,        \* what was printed to stderr, one entry per print call
    copy_calls,    \* the texts handed to pyperclip.copy, in order
    clipboard_failed, \* pyperclip.copy raised PyperclipException in this run
    exit_code      \* the exit status of the process, -1 while it runs

gen_vars == <<generator, ctor, length, outcome, gen_pc, history>>
cli_vars == <<namespace, args, pc, password, stdout, stderr, copy_calls,
              clipboard_failed, exit_code>>
vars == <<gen_vars, cli_vars>>

Lengths == (0 - MaxLength)..MaxLength
SeqLengths == (0 - MaxSeqLength)..MaxSeqLength
ArgLengths == (0 - MaxArgLength)..MaxArgLength

\* the CLI part of the state while no command line is being run
CLIIdle ==
    /\ namespace = <<>>
    /\ args = <<>>
    /\ pc = "none"
    /\ password = <<>>
    /\ stdout = <<>>
    /\ stderr = <<>>
    /\ copy_calls = <<>>
    /\ clipboard_failed = FALSE
    /\ exit_code = 0 - 1

(* ---------------- direct use of one PasswordGenerator ------------------ *)
\* a generator has been constructed with some flags; nothing called yet
GenInit ==
    /\ \E u \in BOOLEAN, n \in BOOLEAN, s \in BOOLEAN :
          /\ ctor = [use_uppercase |-> u, use_numbers |-> n, use_special |-> s]
          /\ generator = <<PasswordGenerator(u, n, s)>>
    /\ length = 0
    /\ outcome = NoOutcome
    /\ gen_pc = "idle"
    /\ history = <<>>
    /\ CLIIdle

\* the caller invokes generate(len) on the generator, len being one of lens,
\* after fewer than max earlier calls
Call(lens, max) ==
    /\ gen_pc \in {"idle", "done"}
    /\ Len(history) < max
    /\ \E len \in lens : length' = len
    /\ gen_pc' = "called"
    /\ outcome' = NoOutcome
    /\ UNCHANGED <<generator, ctor, history, cli_vars>>

\* generate removing from self._charset the last character whenever it returns
Generate_draining ==
    /\ gen_pc = "called"
    /\ \E rnd \in Tapes(generator[1], length) :
          /\ outcome' = generate(generator[1], length, rnd)
          /\ history' = Append(history, outcome'.kind)
    /\ generator' = IF outcome'.kind = "return"
                    THEN <<[generator[1] EXCEPT
                              !._charset = SubSeq(@, 1, Len(@) - 1)]>>
                    ELSE generator
    /\ gen_pc' = "done"
    /\ UNCHANGED <<ctor, length, cli_vars>>

\* the body of generate runs: it returns a password or raises; self is only read
Generate ==
    /\ gen_pc = "called"
    /\ \E rnd \in Tapes(generator[1], length) :
          /\ outcome' = generate(generator[1], length, rnd)
          /\ history' = Append(history, outcome'.kind)
    /\ gen_pc' = "done"
    /\ UNCHANGED <<generator, ctor, length, cli_vars>>

\* one generate call, of any length up to MaxLength
CallOnce == Call(Lengths, 1)
GenNext == CallOnce \/ Generate
GenSpec == GenInit /\ [][GenNext]_vars

\* up to MaxCalls generate calls on the same generator
CallAgain == Call(SeqLengths, MaxCalls)
SeqNext == CallAgain \/ Generate
SeqSpec == GenInit /\ [][SeqNext]_vars

(* ------------------------------ CLI.run -------------------------------- *)
\* the process starts with some command line; no generator exists yet
Init ==
    /\ \E len \in ArgLengths, nu \in BOOLEAN, nn \in BOOLEAN, nsp \in BOOLEAN, c \in BOOLEAN :
          namespace = [length |-> len, no_uppercase |-> nu, no_numbers |-> nn,
                       no_special |-> nsp, copy |-> c]
    /\ args = <<>>
    /\ pc = "parse_args"
    /\ password = <<>>
    /\ stdout = <<>>
    /\ stderr = <<>>
    /\ copy_calls = <<>>
    /\ clipboard_failed = FALSE
    /\ exit_code = 0 - 1
    /\ generator = <<>>
    /\ ctor = <<>>
    /\ length = 0
    /\ outcome = NoOutcome
    /\ gen_pc = "idle"
    /\ history = <<>>

\* args = self.parse_args()
ParseArgs ==
    /\ pc = "parse_args"
    /\ args' = parse_args(namespace)
    /\ pc' = "validate"
    /\ UNCHANGED <<gen_vars, namespace, password, stdout, stderr, copy_calls,
                   clipboard_failed, exit_code>>

\* the length validation reporting the error without sys.exit(1)
ValidateLength_no_exit ==
    /\ pc = "validate"
    /\ IF args.length < 1
       THEN stderr' = display_error(stderr, InvalidLengthMessage)
       ELSE UNCHANGED stderr
    /\ pc' = "try"
    /\ UNCHANGED <<gen_vars, namespace, args, password, stdout, copy_calls,
                   clipboard_failed, exit_code>>

\* the length validation of run: report and sys.exit(1), or go on to the try block
\* (the check of the three flags that follows it does nothing)
ValidateLength ==
    /\ pc = "validate"
    /\ IF args.length < 1
       THEN /\ stderr' = display_error(stderr, InvalidLengthMessage)
            /\ exit_code' = 1
            /\ pc' = "exited"
       ELSE /\ pc' = "try"
            /\ UNCHANGED <<stderr, exit_code>>
    /\ UNCHANGED <<gen_vars, namespace, args, password, stdout, copy_calls,
                   clipboard_failed>>

\* the try block of run: construct the generator and call generate;
\* a ValueError is reported and ends the process with status 1
TryGenerate ==
    /\ pc = "try"
    /\ ctor' = [use_uppercase |-> args.use_uppercase, use_numbers |-> args.use_numbers,
                use_special |-> args.use_special]
    /\ generator' = <<PasswordGenerator(args.use_uppercase, args.use_numbers,
                                        args.use_special)>>
    /\ length' = args.length
    /\ \E rnd \in Tapes(generator'[1], args.length) :
          outcome' = generate(generator'[1], args.length, rnd)
    /\ IF outcome'.kind = "raise"
       THEN /\ stderr' = display_error(stderr, outcome'.error)
            /\ exit_code' = 1
            /\ pc' = "exited"
            /\ UNCHANGED password
       ELSE /\ password' = outcome'.value
            /\ pc' = "display"
            /\ UNCHANGED <<stderr, exit_code>>
    /\ UNCHANGED <<gen_pc, history, namespace, args, stdout, copy_calls, clipboard_failed>>

\* self.display_password(password)
DisplayPassword ==
    /\ pc = "display"
    /\ stdout' = display_password(stdout, password)
    /\ pc' = "copy"
    /\ UNCHANGED <<gen_vars, namespace, args, password, stderr, copy_calls,
                   clipboard_failed, exit_code>>

\* copy_to_clipboard ending the process with status 1 when pyperclip.copy raises
CopyToClipboard_fatal ==
    /\ pc = "copy"
    /\ IF args.copy
       THEN /\ copy_calls' = Append(copy_calls, password)
            /\ \E ok \in BOOLEAN :
                  IF ok
                  THEN /\ stdout' = Append(stdout, Printed("Password copied to clipboard.", <<>>))
                       /\ exit_code' = 0
                       /\ UNCHANGED <<stderr, clipboard_failed>>
                  ELSE /\ stderr' = display_error(stderr,
                                        "Failed to copy to clipboard: " \o PyperclipMessage)
                       /\ clipboard_failed' = TRUE
                       /\ exit_code' = 1
                       /\ UNCHANGED stdout
       ELSE /\ exit_code' = 0
            /\ UNCHANGED <<copy_calls, stdout, stderr, clipboard_failed>>
    /\ pc' = "exited"
    /\ UNCHANGED <<gen_vars, namespace, args, password>>

\* if args['copy']: self.copy_to_clipboard(password); then run returns and the
\* process ends with status 0.  pyperclip.copy succeeds or raises
\* PyperclipException, which copy_to_clipboard catches and reports
CopyToClipboard ==
    /\ pc = "copy"
    /\ IF args.copy
       THEN /\ copy_calls' = Append(copy_calls, password)
            /\ \E ok \in BOOLEAN :
                  IF ok
                  THEN /\ stdout' = Append(stdout, Printed("Password copied to clipboard.", <<>>))
                       /\ UNCHANGED <<stderr, clipboard_failed>>
                  ELSE /\ stderr' = display_error(stderr,
                                        "Failed to copy to clipboard: " \o PyperclipMessage)
                       /\ clipboard_failed' = TRUE
                       /\ UNCHANGED stdout
       ELSE UNCHANGED <<copy_calls, stdout, stderr, clipboard_failed>>
    /\ exit_code' = 0
    /\ pc' = "exited"
    /\ UNCHANGED <<gen_vars, namespace, args, password>>

Next == ParseArgs \/ ValidateLength \/ TryGenerate \/ DisplayPassword \/ CopyToClipboard
Spec == Init /\ [][Next]_vars

(* ============================ properties =============================== *)
\* the flags a generator was constructed with
AllFlags(b) == ctor.use_uppercase = b /\ ctor.use_numbers = b /\ ctor.use_special = b

\* C1: for every length >= 1 and every flag combination, generate(length)
\* returns a string of exactly length characters, whatever the entropy source gives
C1_ExactLength ==
    (gen_pc = "done" /\ length >= 1)
        => (outcome.kind = "return" /\ Len(outcome.value) = length)

\* a call with the largest length, all classes enabled, has returned
C1_Witness ==
    /\ gen_pc = "done" /\ length = MaxLength /\ length >= 2
    /\ AllFlags(TRUE)
    /\ outcome.kind = "return" /\ Len(outcome.value) = length

\* the characters of each pool
Lowercase == Chars(ascii_lowercase)
Uppercase == Chars(ascii_uppercase)
Digits == Chars(digits)
Punctuation == Chars(punctuation)

\* C2: every character of a returned password is in the alphabet built from the
\* flags; a class whose flag is false contributes no character, and with all
\* three false only a-z occur
C2_Membership ==
    (gen_pc = "done" /\ outcome.kind = "return")
        => \A i \in 1..Len(outcome.value) :
             LET c == outcome.value[i] IN
             /\ \/ c \in Lowercase
                \/ ctor.use_uppercase /\ c \in Uppercase
                \/ ctor.use_numbers /\ c \in Digits
                \/ ctor.use_special /\ c \in Punctuation
             /\ ~ctor.use_uppercase => c \notin Uppercase
             /\ ~ctor.use_numbers => c \notin Digits
             /\ ~ctor.use_special => c \notin Punctuation
             /\ AllFlags(FALSE) => c \in Lowercase

\* a password of two different characters was returned with all classes disabled
C2_Witness ==
    /\ gen_pc = "done" /\ outcome.kind = "return"
    /\ AllFlags(FALSE)
    /\ Len(outcome.value) = 2 /\ outcome.value[1] # outcome.value[2]

\* C3: generate(length) with length < 1 raises the invalid-length ValueError for
\* every flag combination; no character is drawn and no string is returned
C3_InvalidLength ==
    (gen_pc = "done" /\ length < 1)
        => /\ outcome.kind = "raise"
           /\ outcome.error = InvalidLengthMessage
           /\ outcome.value = <<>>
           /\ outcome.choices = 0

\* a call with length 0 has raised
C3_Witness ==
    gen_pc = "done" /\ length = 0 /\ outcome.kind = "raise"

\* C4: whatever the flags, the alphabet built at construction contains the 26
\* lowercase letters and is not empty, and no generate call takes the
\* empty-alphabet branch
C4_LowercaseAlways ==
    /\ gen_pc # "done"
         => /\ Lowercase \subseteq Chars(generator[1]._charset)
            /\ Cardinality(Lowercase) = 26
    /\ Len(generator[1]._charset) > 0
    /\ outcome.error # EmptyCharsetMessage

\* generate was called on a generator built with every optional class disabled
C4_Witness ==
    /\ gen_pc = "done" /\ AllFlags(FALSE)
    /\ length = 1 /\ outcome.kind = "return"

\* the pool of an optional class, or nothing if its flag is off
Pool(flag, pool) == IF flag THEN pool ELSE <<>>
Count(flag, n) == IF flag THEN n ELSE 0

\* C7: the alphabet a generator is built with is the lowercase pool, then the
\* uppercase pool if u, then the digits if n, then the punctuation if s, in this
\* order; no character occurs twice; its length is 26 + 26*u + 10*n + 32*s
C7_AlphabetShape ==
    gen_pc # "done" =>
        LET cs == generator[1]._charset IN
        /\ cs = ascii_lowercase \o Pool(ctor.use_uppercase, ascii_uppercase)
                                \o Pool(ctor.use_numbers, digits)
                                \o Pool(ctor.use_special, punctuation)
        /\ \A i \in 1..Len(cs), j \in 1..Len(cs) : cs[i] = cs[j] => i = j
        /\ Len(cs) = 26 + Count(ctor.use_uppercase, 26) + Count(ctor.use_numbers, 10)
                        + Count(ctor.use_special, 32)

\* a generator with all classes enabled, whose alphabet has 94 characters
C7_Witness ==
    /\ AllFlags(TRUE) /\ Len(generator[1]._charset) = 94
    /\ gen_pc = "called"

\* the results generate(len) can give on the object self
Results(self, len) == {generate(self, len, rnd) : rnd \in Tapes(self, len)}

\* C9: after any sequence of generate calls, successful or failing, the
\* generator's flags and alphabet are as __init__ left them, and the set of
\* possible results of the next call is that of a freshly built generator
C9_GenerateKeepsSelf ==
    LET fresh == PasswordGenerator(ctor.use_uppercase, ctor.use_numbers,
                                   ctor.use_special) IN
    /\ generator = <<fresh>>
    /\ gen_pc = "called" => Results(generator[1], length) = Results(fresh, length)

\* a failing call and then a successful one have been made on one generator
C9_Witness ==
    /\ gen_pc = "done"
    /\ Len(history) >= 2
    /\ history[1] = "raise" /\ history[2] = "return"

\* the line display_error prints for a message
ErrorLine(message) == [prefix |-> "Error: ", message |-> message]
OnStderr(line) == \E i \in 1..Len(stderr) : stderr[i] = line
ClipboardErrorLine == ErrorLine("Failed to copy to clipboard: " \o PyperclipMessage)

\* C5: a run ends with status 1 exactly when the requested length is < 1 and
\* with status 0 otherwise; a clipboard failure leaves the status 0 and the run
\* goes on to its end
C5_ExitCode ==
    /\ pc = "exited" => exit_code = (IF namespace.length < 1 THEN 1 ELSE 0)
    /\ pc # "exited" => (exit_code = 0 - 1 /\ ENABLED Next)
    /\ clipboard_failed => (pc = "exited" /\ exit_code = 0)

\* a run with --copy ended after pyperclip.copy failed
C5_Witness ==
    /\ pc = "exited" /\ args.copy /\ clipboard_failed
    /\ exit_code = 0

\* C6: in a run with length < 1 the error is reported and the process ends with
\* status 1 before any generation: no generator is constructed, generate is not
\* called, nothing is displayed and no clipboard copy is attempted
C6_NoGenerationOnInvalidLength ==
    namespace.length < 1
        => /\ generator = <<>>
           /\ outcome = NoOutcome
           /\ password = <<>>
           /\ stdout = <<>>
           /\ copy_calls = <<>>
           /\ pc \in {"parse_args", "validate", "exited"}
           /\ pc = "exited" => (exit_code = 1 /\ stderr = <<ErrorLine(InvalidLengthMessage)>>)

\* a run with a negative length and --copy has ended
C6_Witness ==
    /\ pc = "exited" /\ namespace.length < 0 /\ namespace.copy
    /\ exit_code = 1

\* the password has been printed on stdout
Displayed(pw) == \E i \in 1..Len(stdout) : stdout[i] = Printed("", pw)

\* C10: a clipboard copy is attempted only with the copy flag set, after a
\* successful generation and after the password was displayed; the text copied
\* is the displayed password; a length or clipboard failure is reported on stderr
\* as an "Error: <message>" line
C10_CopyAndErrors ==
    /\ copy_calls # <<>>
         => /\ args.copy
            /\ outcome.kind = "return" /\ password = outcome.value
            /\ Displayed(password)
            /\ copy_calls = <<password>>
    /\ (pc = "exited" /\ exit_code = 1) => OnStderr(ErrorLine(InvalidLengthMessage))
    /\ clipboard_failed => OnStderr(ClipboardErrorLine)
    /\ \A i \in 1..Len(stderr) : stderr[i].prefix = "Error: "

\* the copy of a displayed password failed and was reported
C10_Witness ==
    /\ clipboard_failed /\ Len(password) >= 1
    /\ copy_calls = <<password>> /\ Displayed(password)
    /\ OnStderr(ClipboardErrorLine)

====
